---- MODULE Spec2Model ----
(***************************************************************************)
(* A model of the IdleQueue scheduler (src/src/IdleQueue.ts) together with *)
(* the host primitives it talks to: the idle-callback registry             *)
(* (src/src/idleCbWithPolyfill.ts), the microtask queue                    *)
(* (src/unnamed/part_000), the document's visibility and the event         *)
(* listeners registered on the global object.                              *)
(*                                                                         *)
(* JavaScript is single threaded: a handler runs to completion.  The only  *)
(* place where foreign code runs inside a handler is the call task(state)  *)
(* in runTasks, so the drain is split there and nowhere else: an action is *)
(* a handler up to the point where it returns or starts the next task.     *)
(* pc = "task" is a task body executing (it may call the scheduler's       *)
(* public methods), pc = "idle" is no drain on the stack.                  *)
(*                                                                         *)
(* queueMicrotask and Promise.resolve().then both put the callback in the  *)
(* host's microtask queue, one microtask per callback; the                 *)
(* MutationObserver fallback keeps the callbacks in an array of its own    *)
(* and calls them from one observer callback (forEach, then the array is   *)
(* replaced by an empty one).                                              *)
(***************************************************************************)
EXTENDS Integers, Sequences, FiniteSets

\* ------------------------------------------------------------- bounds
\* Number of pushTask/unshiftTask calls in a behaviour.
MaxTasks == 2

\* Number of callbacks handed to the function createQueueMicrotask()
\* returned.
MaxCallbacks == 4
\* The clock (ms) stops here; idle callbacks are requested up to
\* MaxNow - 52, so that more than 50 ms pass after a request.
MaxNow == 55

\* ------------------------------------------------- program constants
DEFAULT_MIN_TASK_TIME == 0
MAX_TASKS_PER_ITERATION == 20
\* the idle period IdleDeadline.timeRemaining() counts down from (ms)
IdlePeriod == 50

\* ------------------------------------------------------ input domains
\* idleCallbackHandle = null (a handle the host returns is truthy).
NoHandle == 0
\* options (or options.minTaskTime) not given
NoOptions == [undefined |-> TRUE]
\* the options a caller passes: none, a negative minTaskTime, 0, and the
\* length of the longest idle period
TaskOptions == {NoOptions} \cup {[minTaskTime |-> m] : m \in {-5, 0, 50}}
\* the defaultMinTaskTime values a constructor is given
DefaultMinTaskTimes == {DEFAULT_MIN_TASK_TIME, 10}
\* the maxTasksPerIteration values a constructor is given: one that a full
\* queue exceeds, and the default
MaxTasksPerIterationValues == {MaxTasks - 1, MAX_TASKS_PER_ITERATION}
\* what deadline.timeRemaining() may report (0..50 ms), chosen to fall
\* on and above the stored minTaskTime values 0 and 10, and on the
\* largest value there is, which the stored minTaskTime 50 equals
TimeRemainings == {0, 10, IdlePeriod}
\* no deadline.timeRemaining() call was made
NoReading == -1
\* this.state = null
NullState == [null |-> TRUE]
\* no task is executing
NoItem == [none |-> TRUE]
\* the functions createQueueMicrotask() can return
QueueMicrotaskVariants == {"queueMicrotask", "promises", "mutationObserver"}
\* the host's microtask that calls the MutationObserver's callback (a
\* microtask that calls a callback handed over is that callback's number)
Observer == 0
\* no callback is being called
NoCallback == 0
\* no IdleDeadline was constructed
NoDeadline == -1
\* what createQueueMicrotask() returns to the scheduler: "host" is
\* queueMicrotask.bind(window) or the Promise-based function, which both
\* queue one host microtask per callback
QueueMicrotaskKinds == {"host", "mutationObserver"}

VARIABLES
    \* utils/env and the host's capabilities
    isBrowser, isSafari,
    queueMicrotaskKind, \* which function createQueueMicrotask() returns
    \* IdleQueue fields
    ensureTasksRun, defaultMinTaskTime, maxTasksPerIteration,
    idleCallbackHandle, taskQueue, isProcessing, state,
    \* host
    visibilityState,   \* document.visibilityState
    listeners,         \* listeners registered with addEventListener
    idleRequests,      \* handles of the idle callbacks requested and not yet run or cancelled
    microtasks,        \* number of runTasks callbacks queued as microtasks and not yet called
    forEachLeft,       \* callbacks the observer's running forEach has not returned from (0: none running)
    \* the runTasks invocation on the stack
    pc,                \* "task": a task body is executing; "idle": no drain is on the stack
    deadline,          \* TRUE iff runTasks was given an IdleDeadline
    tasksProcessed,    \* local of runTasks
    running,           \* taskQueueItem, the item whose task is executing
    \* history
    nextTask,          \* identity of the next task enqueued
    unshifted,         \* the tasks that were enqueued by unshiftTask
    executed,          \* the tasks started, in order
    dropped,           \* the tasks removed by clearPendingTasks / destroy
    destroyed,         \* destroy() was called
    caller,            \* who invoked the drain on the stack (or the last one)
    entryQueue,        \* taskQueue when that drain was entered (while untouched)
    touched,           \* a task of that drain called a method that changes the queue
    threw,             \* the last step was a task of that drain throwing
    reading,           \* deadline.timeRemaining() as the loop condition read it in the last step
    \* queueMicrotask.ts on its own
    variant,           \* which function createQueueMicrotask() returned
    hostMicrotasks,    \* the host's microtask queue
    microtaskQueue,    \* the array of the MutationObserver variant
    mutationCounter,   \* the counter of the MutationObserver variant
    forEachIndex,      \* the element the observer's forEach is calling (0: forEach is not running)
    forEachLength,     \* the array length forEach read before its first call
    calling,           \* the callback being called
    invocations,       \* how often each callback was called
    handedOver,        \* number of callbacks handed over (they are numbered in this order)
    \* idleCbWithPolyfill.ts on its own
    now,               \* now(), in ms
    initTime,          \* IdleDeadline.initTime of the deadline of the last request
    readAt,            \* when timeRemaining() was last called on that deadline
    remaining,         \* what it returned
    didTimeoutReads    \* the values read from didTimeout

envVars == <<isBrowser, isSafari, queueMicrotaskKind>>
cfgVars == <<ensureTasksRun, defaultMinTaskTime, maxTasksPerIteration>>
loopVars == <<pc, deadline, tasksProcessed, running>>
schedulerVars ==
    <<isBrowser, isSafari, queueMicrotaskKind, ensureTasksRun,
      defaultMinTaskTime, maxTasksPerIteration, idleCallbackHandle,
      taskQueue, isProcessing, state, visibilityState, listeners,
      idleRequests, microtasks, forEachLeft,
      pc, deadline, tasksProcessed, running, nextTask, unshifted,
      executed, dropped, destroyed, caller, entryQueue, touched,
      threw, reading>>
microtaskVars ==
    <<variant, hostMicrotasks, microtaskQueue, mutationCounter,
      forEachIndex, forEachLength, calling, invocations, handedOver>>
deadlineVars == <<now, initTime, readAt, remaining, didTimeoutReads>>
\* the two host modules, which the scheduler's actions leave alone (the
\* scheduler's view of them is idleRequests, microtasks, forEachLeft and
\* reading)
hostVars == <<microtaskVars, deadlineVars>>
vars == <<schedulerVars, microtaskVars, deadlineVars>>

\* ------------------------------------------------------------ helpers
Max(a, b) == IF a >= b THEN a ELSE b
Range(s) == {s[i] : i \in 1..Len(s)}
TaskIds(q) == {q[i].task : i \in 1..Len(q)}

\* shouldYield(deadline, minTaskTime): hasDeadline is !!deadline and
\* timeRemaining is deadline.timeRemaining(); minTaskTime || 0 is
\* minTaskTime for every number.
\* variant: < for <=
ShouldYieldStrict(hasDeadline, timeRemaining, minTaskTime) ==
    hasDeadline /\ timeRemaining < minTaskTime
\* variant: a missing deadline counts as no time remaining
ShouldYieldNoDeadline(hasDeadline, timeRemaining, minTaskTime) ==
    (IF hasDeadline THEN timeRemaining ELSE 0) <= minTaskTime
ShouldYield(hasDeadline, timeRemaining, minTaskTime) ==
    hasDeadline /\ timeRemaining <= minTaskTime

\* hasPendingTasks()
HasPendingTasks == Len(taskQueue) > 0

\* tasksProcessed < this.maxTasksPerIteration
\* variant: <= for <
UnderCapOffByOne(n) == n <= maxTasksPerIteration
UnderCap(n) == n < maxTasksPerIteration

\* Math.max(0, (options && options.minTaskTime) || this.defaultMinTaskTime):
\* undefined and 0 are falsy, every other number is truthy.
MinTaskTimeOf(options) ==
    Max(0, IF options = NoOptions \/ options.minTaskTime = 0
           THEN defaultMinTaskTime ELSE options.minTaskTime)

\* variants: the two array methods exchanged
PushAtFront(q, item) == <<item>> \o q
UnshiftAtBack(q, item) == Append(q, item)
\* Array.prototype.push / Array.prototype.unshift on the task queue
Push(q, item) == Append(q, item)
Unshift(q, item) == <<item>> \o q
\* the array method handleTask is handed, bound to the task queue
Call(method, q, item) ==
    IF method = "push" THEN Push(q, item) ELSE Unshift(q, item)

\* now(): a logical clock, the k-th enqueue reads the time k (no code
\* compares two readings)
Now == nextTask

\* const { task, state } = taskQueueItem: the state runTasks publishes
\* while the item's task runs
\* variant: the state is read when the task is run
StateWhenRun(taskQueueItem) ==
    [time |-> nextTask,
     visibilityState |-> IF isBrowser THEN visibilityState ELSE "visible"]
StateOfItem(taskQueueItem) == taskQueueItem.state

\* the state handleTask stamps on an item
CurrentState ==
    [time |-> Now,
     visibilityState |-> IF isBrowser THEN visibilityState ELSE "visible"]

\* rIC: the host hands out a handle different from every outstanding one
\* (a positive number, or a truthy timer object).
NewHandle(reqs) == CHOOSE h \in 1..(Cardinality(reqs) + 1) : h \notin reqs
\* cIC(handle)
cIC(handle, reqs) == reqs \ {handle}

\* the listeners the constructor installs
ArrowListener == [type |-> "visibilitychange", listener |-> "arrow"]
BoundListener(type) == [type |-> type, listener |-> "runTasksImmediately"]
ConstructorListeners ==
    IF isBrowser /\ ensureTasksRun
    THEN {ArrowListener} \cup (IF isSafari THEN {BoundListener("beforeunload")} ELSE {})
    ELSE {}

\* ---------------------------------------------------------------- Init
\* queueMicrotask.ts: nothing was handed over
NoMicrotasks ==
    /\ hostMicrotasks = <<>>
    /\ microtaskQueue = <<>>
    /\ mutationCounter = 0
    /\ forEachIndex = 0
    /\ forEachLength = 0
    /\ calling = NoCallback
    /\ invocations = [c \in 1..MaxCallbacks |-> 0]
    /\ handedOver = 0

\* idleCbWithPolyfill.ts: nothing was requested
NoIdleCallback ==
    /\ initTime = NoDeadline
    /\ readAt = NoDeadline
    /\ remaining = NoReading
    /\ didTimeoutReads = {}

\* new IdleQueue(...)
Constructed ==
    /\ isBrowser \in BOOLEAN
    /\ ensureTasksRun \in BOOLEAN
    /\ isSafari \in (IF isBrowser /\ ensureTasksRun THEN BOOLEAN ELSE {FALSE})
    /\ queueMicrotaskKind \in (IF isBrowser /\ ensureTasksRun
                               THEN QueueMicrotaskKinds ELSE {"host"})
    /\ defaultMinTaskTime \in DefaultMinTaskTimes
    /\ maxTasksPerIteration \in MaxTasksPerIterationValues
    /\ idleCallbackHandle = NoHandle
    /\ taskQueue = <<>>
    /\ isProcessing = FALSE
    /\ state = NullState
    /\ visibilityState \in (IF isBrowser THEN {"visible", "hidden"} ELSE {"visible"})
    /\ listeners = ConstructorListeners
    /\ idleRequests = {}
    /\ microtasks = 0
    /\ forEachLeft = 0
    /\ pc = "idle"
    /\ deadline = FALSE
    /\ tasksProcessed = 0
    /\ running = NoItem
    /\ nextTask = 1
    /\ unshifted = {}
    /\ executed = <<>>
    /\ dropped = {}
    /\ destroyed = FALSE
    /\ caller = "none"
    /\ entryQueue = <<>>
    /\ touched = FALSE
    /\ threw = FALSE
    /\ reading = NoReading

Init ==
    /\ Constructed
    /\ variant = "queueMicrotask" /\ NoMicrotasks
    /\ now = 0 /\ NoIdleCallback

\* ------------------------------------------------- scheduler internals
\* what the scheduler and the host hold about scheduled runs
Scheduling ==
    [handle |-> idleCallbackHandle, requests |-> idleRequests,
     micro |-> microtasks, forEach |-> forEachLeft]

SetScheduling(s) ==
    /\ idleCallbackHandle' = s.handle
    /\ idleRequests' = s.requests
    /\ microtasks' = s.micro
    /\ forEachLeft' = s.forEach

\* variant: rIC is called whether or not a handle is held
ScheduleTasksToRunAgain(s, vis) ==
    IF isBrowser /\ ensureTasksRun /\ vis = "hidden"
    THEN [s EXCEPT !.micro = @ + 1]
    ELSE [s EXCEPT !.handle = NewHandle(s.requests),
                   !.requests = @ \cup {NewHandle(s.requests)}]
\* scheduleTasksToRun(), with the document's visibility vis
ScheduleTasksToRun(s, vis) ==
    IF isBrowser /\ ensureTasksRun /\ vis = "hidden"
    THEN [s EXCEPT !.micro = @ + 1]
    ELSE IF s.handle # NoHandle
         THEN s
         ELSE [s EXCEPT !.handle = NewHandle(s.requests),
                        !.requests = @ \cup {NewHandle(s.requests)}]

\* the observer callback after its forEach: microtaskQueue = []
ForEachDone(s) == [s EXCEPT !.micro = 0, !.forEach = 0]

\* variant: the handle is forgotten, the request is not cancelled
CancelScheduledRunNoCIC(s) == [s EXCEPT !.handle = NoHandle]
\* cancelScheduledRun()
CancelScheduledRun(s) ==
    [s EXCEPT !.handle = NoHandle,
              !.requests = IF s.handle # NoHandle THEN cIC(s.handle, @) ELSE @]

\* the drain history of a method called from the top level (it ends the
\* record of the last drain) or from a running task (the entry queue is
\* kept only for drains whose tasks leave the queue alone)
HistoryOfCall(changesQueue) ==
    IF pc = "task"
    THEN /\ touched' = (touched \/ changesQueue)
         /\ entryQueue' = IF touched \/ changesQueue THEN <<>> ELSE entryQueue
         /\ reading' = NoReading
         /\ threw' = FALSE
         /\ UNCHANGED caller
    ELSE /\ caller' = "none"
         /\ entryQueue' = <<>>
         /\ touched' = FALSE
         /\ threw' = FALSE
         /\ reading' = NoReading

\* the loop condition reads deadline.timeRemaining() only when a deadline
\* was given and the first two conjuncts hold
ReadsDeadline(hasDeadline, n) ==
    hasDeadline /\ HasPendingTasks /\ UnderCap(n)

\* the while condition of runTasks after n tasks, with timeRemaining the
\* deadline's answer
LoopCondition(hasDeadline, n, timeRemaining) ==
    /\ HasPendingTasks
    /\ UnderCap(n)
    /\ ~ShouldYield(hasDeadline, timeRemaining, Head(taskQueue).minTaskTime)

\* the drain history of a runTasks invocation entered now by `who`
HistoryOfEntry(who) ==
    [caller |-> who, entryQueue |-> taskQueue, touched |-> FALSE,
     threw |-> FALSE]

\* the drain history of the invocation on the stack, after a task that
\* threw or returned
HistoryOfDrain(thrown) ==
    [caller |-> caller, entryQueue |-> entryQueue, touched |-> touched,
     threw |-> thrown]

SetHistory(h) ==
    /\ caller' = h.caller
    /\ entryQueue' = h.entryQueue
    /\ touched' = h.touched
    /\ threw' = h.threw

\* the loop body up to the call task(state): the front item is shifted
\* and its state published
StartTask(hasDeadline, n, s, h) ==
    /\ running' = Head(taskQueue)
    /\ taskQueue' = Tail(taskQueue)
    /\ state' = StateOfItem(Head(taskQueue))
    /\ executed' = Append(executed, Head(taskQueue).task)
    /\ isProcessing' = TRUE
    /\ tasksProcessed' = n
    /\ deadline' = hasDeadline
    /\ pc' = "task"
    /\ SetScheduling(s)
    /\ SetHistory(h)

\* runTasks returns to the host or to user code
Return(s, h) ==
    /\ isProcessing' = FALSE
    /\ running' = NoItem
    /\ state' = NullState
    /\ tasksProcessed' = 0
    /\ deadline' = FALSE
    /\ pc' = "idle"
    /\ SetScheduling(s)
    /\ SetHistory(h)
    /\ UNCHANGED <<taskQueue, executed>>

\* the loop of runTasks from its head, n tasks processed, up to the call
\* of the next task or to the return to the host; s is the scheduling
\* state, vis the document's visibility and h the drain history at this
\* point.  When runTasks returns to the observer callback of the
\* MutationObserver fallback, its forEach calls the next callback it has
\* (runTasks again, which starts the front task or returns at once), and
\* after the last one the callback array is replaced by an empty one.
Loop(hasDeadline, n, timeRemaining, s, vis, h) ==
    /\ timeRemaining \in (IF ReadsDeadline(hasDeadline, n)
                          THEN TimeRemainings ELSE {NoReading})
    /\ reading' = timeRemaining
    /\ IF LoopCondition(hasDeadline, n, timeRemaining)
       THEN StartTask(hasDeadline, n, s, h)
       ELSE LET exit == IF HasPendingTasks
                        THEN ScheduleTasksToRun(s, vis) ELSE s
                next == CancelScheduledRun(
                            [exit EXCEPT !.micro = @ - 1, !.forEach = @ - 1])
            IN  IF exit.forEach = 0
                THEN Return(exit, h)
                ELSE IF exit.forEach = 1
                THEN Return(ForEachDone(exit), h)
                ELSE IF LoopCondition(FALSE, 0, NoReading)
                THEN StartTask(FALSE, 0, next, HistoryOfEntry("microtask"))
                ELSE Return(ForEachDone(next), HistoryOfEntry("microtask"))

\* variant: runTasks without the isProcessing guard
RunTasksNested(hasDeadline, who, timeRemaining, s, vis) ==
    Loop(hasDeadline, 0, timeRemaining, CancelScheduledRun(s), vis,
         HistoryOfEntry(who))
\* runTasks(deadline), called by `who` with the scheduling state s
RunTasks(hasDeadline, who, timeRemaining, s, vis) ==
    IF ~isProcessing
    THEN Loop(hasDeadline, 0, timeRemaining, CancelScheduledRun(s), vis,
              HistoryOfEntry(who))
    ELSE /\ timeRemaining = NoReading
         /\ SetScheduling(CancelScheduledRun(s))
         /\ HistoryOfCall(FALSE)
         /\ UNCHANGED <<taskQueue, isProcessing, state, loopVars, executed>>

\* ------------------------------------------------------ public methods
\* handleTask(task, handleTaskQueueItem, options)
HandleTask(options, handleTaskQueueItem) ==
    /\ nextTask <= MaxTasks
    /\ taskQueue' = Call(handleTaskQueueItem, taskQueue,
                         [state |-> CurrentState, task |-> nextTask,
                          minTaskTime |-> MinTaskTimeOf(options)])
    /\ SetScheduling(ScheduleTasksToRun(Scheduling, visibilityState))
    /\ nextTask' = nextTask + 1
    /\ HistoryOfCall(TRUE)
    /\ UNCHANGED <<envVars, hostVars, cfgVars, isProcessing, state, visibilityState,
                   listeners, loopVars, executed, dropped, destroyed>>

\* pushTask(task, options)
PushTask(options) ==
    /\ HandleTask(options, "push")
    /\ UNCHANGED unshifted

\* unshiftTask(task, options)
UnshiftTask(options) ==
    /\ HandleTask(options, "unshift")
    /\ unshifted' = unshifted \cup {nextTask}

\* runTasksImmediately(), called by user code (top level or a running task)
RunTasksImmediately(timeRemaining) ==
    /\ RunTasks(FALSE, "runTasksImmediately", timeRemaining, Scheduling,
                visibilityState)
    /\ UNCHANGED <<envVars, hostVars, cfgVars, visibilityState, listeners, nextTask,
                   unshifted, dropped, destroyed>>

\* variant: clearPendingTasks() without cancelScheduledRun()
ClearPendingTasksNoCancel ==
    /\ taskQueue' = <<>>
    /\ dropped' = dropped \cup TaskIds(taskQueue)
    /\ HistoryOfCall(TRUE)
    /\ UNCHANGED <<envVars, hostVars, cfgVars, isProcessing, state, visibilityState,
                   listeners, loopVars, nextTask, unshifted, executed,
                   destroyed, idleCallbackHandle, idleRequests, microtasks,
                   forEachLeft>>
\* clearPendingTasks()
ClearPendingTasks ==
    /\ taskQueue' = <<>>
    /\ SetScheduling(CancelScheduledRun(Scheduling))
    /\ dropped' = dropped \cup TaskIds(taskQueue)
    /\ HistoryOfCall(TRUE)
    /\ UNCHANGED <<envVars, hostVars, cfgVars, isProcessing, state, visibilityState,
                   listeners, loopVars, nextTask, unshifted, executed,
                   destroyed>>

\* removeEventListener(type, this.runTasksImmediately, true) removes the
\* listener of that type that is this very function
RemoveEventListener(ls, type) == ls \ {BoundListener(type)}

\* variant: destroy() without this.taskQueue = []
DestroyKeepsQueue ==
    /\ SetScheduling(CancelScheduledRun(Scheduling))
    /\ listeners' =
         IF isBrowser /\ ensureTasksRun
         THEN IF isSafari
              THEN RemoveEventListener(
                       RemoveEventListener(listeners, "visibilitychange"),
                       "beforeunload")
              ELSE RemoveEventListener(listeners, "visibilitychange")
         ELSE listeners
    /\ dropped' = dropped \cup TaskIds(taskQueue)
    /\ destroyed' = TRUE
    /\ HistoryOfCall(TRUE)
    /\ UNCHANGED <<envVars, hostVars, cfgVars, isProcessing, state, visibilityState,
                   loopVars, nextTask, unshifted, executed, taskQueue>>
\* destroy()
Destroy ==
    /\ taskQueue' = <<>>
    /\ SetScheduling(CancelScheduledRun(Scheduling))
    /\ listeners' =
         IF isBrowser /\ ensureTasksRun
         THEN IF isSafari
              THEN RemoveEventListener(
                       RemoveEventListener(listeners, "visibilitychange"),
                       "beforeunload")
              ELSE RemoveEventListener(listeners, "visibilitychange")
         ELSE listeners
    /\ dropped' = dropped \cup TaskIds(taskQueue)
    /\ destroyed' = TRUE
    /\ HistoryOfCall(TRUE)
    /\ UNCHANGED <<envVars, hostVars, cfgVars, isProcessing, state, visibilityState,
                   loopVars, nextTask, unshifted, executed>>

\* ------------------------------------------------------ host callbacks
\* The host runs a callback only when no script is on the stack, and it
\* empties the microtask queue before it runs the next task of the event
\* loop (an idle callback, a timer, an event dispatch).

\* the idle callback with handle h fires: runTasks(deadline)
IdleCallback(h, timeRemaining) ==
    /\ pc = "idle"
    /\ microtasks = 0
    /\ h \in idleRequests
    /\ RunTasks(TRUE, "idleCallback", timeRemaining,
                [Scheduling EXCEPT !.requests = @ \ {h}], visibilityState)
    /\ UNCHANGED <<envVars, hostVars, cfgVars, visibilityState, listeners, nextTask,
                   unshifted, dropped, destroyed>>

\* a queued microtask runs: runTasks(), called by the host or, with the
\* MutationObserver fallback, as the first callback of the observer's
\* forEach over the callbacks queued by now
Microtask(timeRemaining) ==
    /\ pc = "idle"
    /\ microtasks > 0
    /\ RunTasks(FALSE, "microtask", timeRemaining,
                [Scheduling EXCEPT
                    !.micro = @ - 1,
                    !.forEach = IF queueMicrotaskKind = "mutationObserver"
                                THEN microtasks ELSE 0],
                visibilityState)
    /\ UNCHANGED <<envVars, hostVars, cfgVars, visibilityState, listeners, nextTask,
                   unshifted, dropped, destroyed>>

\* an event of the given type is dispatched with the document's visibility
\* vis: the arrow listener calls runTasksImmediately() when the document
\* is hidden, the bound listener is runTasksImmediately
Dispatch(type, vis, timeRemaining) ==
    IF \E l \in listeners :
           /\ l.type = type
           /\ (l.listener = "arrow" => vis = "hidden")
    THEN RunTasks(FALSE, "runTasksImmediately", timeRemaining, Scheduling, vis)
    ELSE /\ timeRemaining = NoReading
         /\ HistoryOfCall(FALSE)
         /\ UNCHANGED <<idleCallbackHandle, idleRequests, microtasks,
                        forEachLeft, taskQueue, state, isProcessing,
                        loopVars, executed>>

\* the document's visibility changes to vis and "visibilitychange" is fired
VisibilityChange(vis, timeRemaining) ==
    /\ pc = "idle"
    /\ microtasks = 0
    /\ isBrowser
    /\ vis # visibilityState
    /\ visibilityState' = vis
    /\ Dispatch("visibilitychange", vis, timeRemaining)
    /\ UNCHANGED <<envVars, hostVars, cfgVars, listeners, nextTask, unshifted, dropped,
                   destroyed>>

\* "beforeunload" is fired
BeforeUnload(timeRemaining) ==
    /\ pc = "idle"
    /\ microtasks = 0
    /\ isBrowser
    /\ Dispatch("beforeunload", visibilityState, timeRemaining)
    /\ UNCHANGED <<envVars, hostVars, cfgVars, visibilityState, listeners, nextTask,
                   unshifted, dropped, destroyed>>

\* ------------------------------------------------- the end of a task
\* the task returns: this.state = null, tasksProcessed++, and the loop
\* goes on
TaskReturn(timeRemaining) ==
    /\ pc = "task"
    /\ Loop(deadline, tasksProcessed + 1, timeRemaining, Scheduling,
            visibilityState, HistoryOfDrain(FALSE))
    /\ UNCHANGED <<envVars, hostVars, cfgVars, visibilityState, listeners, nextTask,
                   unshifted, dropped, destroyed>>

\* variant: no try/catch, the error leaves runTasks
TaskThrowEscapes(timeRemaining) ==
    /\ pc = "task"
    /\ timeRemaining = NoReading
    /\ pc' = "idle"
    /\ threw' = TRUE
    /\ reading' = NoReading
    /\ UNCHANGED <<envVars, hostVars, cfgVars, idleCallbackHandle, taskQueue,
                   isProcessing, state, visibilityState, listeners,
                   idleRequests, microtasks, forEachLeft, deadline,
                   tasksProcessed,
                   running, nextTask, unshifted, executed, dropped, destroyed,
                   caller, entryQueue, touched>>
\* the task throws: the catch clause reports the error, and the loop goes
\* on as after a return
TaskThrow(timeRemaining) ==
    /\ pc = "task"
    /\ Loop(deadline, tasksProcessed + 1, timeRemaining, Scheduling,
            visibilityState, HistoryOfDrain(TRUE))
    /\ UNCHANGED <<envVars, hostVars, cfgVars, visibilityState, listeners, nextTask,
                   unshifted, dropped, destroyed>>

\* the deadline readings an action may be given
Readings == TimeRemainings \cup {NoReading}

Next ==
    \/ \E options \in TaskOptions : PushTask(options)
    \/ \E options \in TaskOptions : UnshiftTask(options)
    \/ \E r \in Readings : RunTasksImmediately(r)
    \/ ClearPendingTasks
    \/ Destroy
    \/ \E h \in idleRequests, r \in Readings : IdleCallback(h, r)
    \/ \E r \in Readings : Microtask(r)
    \/ \E vis \in {"visible", "hidden"}, r \in Readings : VisibilityChange(vis, r)
    \/ \E r \in Readings : BeforeUnload(r)
    \/ \E r \in Readings : TaskReturn(r)
    \/ \E r \in Readings : TaskThrow(r)

Spec == Init /\ [][Next]_vars

\* ------------------------------------------------------------ fairness
\* A task that was started ends; the host runs the microtasks that are
\* queued, and calls the idle callbacks that are requested; user code
\* and the document's visibility are under no obligation.
TaskEnds == \E r \in Readings : TaskReturn(r) \/ TaskThrow(r)
MicrotaskRuns == \E r \in Readings : Microtask(r)
IdleCallbackRuns ==
    \E h \in idleRequests, r \in Readings : IdleCallback(h, r)
FairSpec ==
    /\ Spec
    /\ WF_vars(TaskEnds)
    /\ WF_vars(MicrotaskRuns)
    /\ WF_vars(IdleCallbackRuns)

\* the host calls a requested idle callback at the start of a full idle
\* period, again and again
FullIdlePeriod == \E h \in idleRequests : IdleCallback(h, IdlePeriod)
GenerousSpec == FairSpec /\ SF_vars(FullIdlePeriod)

\* ---------------------------------------------- queueMicrotask.ts alone
\* The function createQueueMicrotask() returned, its callers (a script, or
\* the callback being called) and the host's microtask queue; the
\* scheduler stands by, freshly constructed.
SchedulerAtRest ==
    /\ Constructed
    /\ isBrowser /\ ~ensureTasksRun
    /\ defaultMinTaskTime = DEFAULT_MIN_TASK_TIME
    /\ maxTasksPerIteration = MAX_TASKS_PER_ITERATION
    /\ visibilityState = "visible"

MicrotaskInit ==
    /\ SchedulerAtRest
    /\ variant \in QueueMicrotaskVariants
    /\ NoMicrotasks
    /\ now = 0 /\ NoIdleCallback

\* callback c is called
Invoke(c) ==
    /\ calling' = c
    /\ invocations' = [invocations EXCEPT ![c] = @ + 1]

\* the function is called with a new callback: queueMicrotask(c),
\* Promise.resolve().then(c), or microtaskQueue.push(c) and a change of
\* node.data, for which the host queues the observer's microtask unless
\* it is queued already
QueueMicrotask(c) ==
    /\ handedOver < MaxCallbacks
    /\ c = handedOver + 1
    /\ handedOver' = c
    /\ IF variant = "mutationObserver"
       THEN /\ microtaskQueue' = Append(microtaskQueue, c)
            /\ mutationCounter' = mutationCounter + 1
            /\ hostMicrotasks' =
                   IF Observer \in Range(hostMicrotasks)
                   THEN hostMicrotasks
                   ELSE Append(hostMicrotasks, Observer)
       ELSE /\ hostMicrotasks' = Append(hostMicrotasks, c)
            /\ UNCHANGED <<microtaskQueue, mutationCounter>>
    /\ UNCHANGED <<variant, forEachIndex, forEachLength, calling,
                   invocations, schedulerVars, deadlineVars>>

\* no script is running and the host runs its next microtask: a callback,
\* or the observer's callback, which starts its forEach
HostRunsMicrotask ==
    /\ calling = NoCallback
    /\ hostMicrotasks # <<>>
    /\ hostMicrotasks' = Tail(hostMicrotasks)
    /\ IF Head(hostMicrotasks) # Observer
       THEN /\ Invoke(Head(hostMicrotasks))
            /\ UNCHANGED <<microtaskQueue, forEachIndex, forEachLength>>
       ELSE IF microtaskQueue = <<>>
       THEN UNCHANGED <<calling, invocations, microtaskQueue, forEachIndex,
                        forEachLength>>
       ELSE /\ Invoke(microtaskQueue[1])
            /\ forEachIndex' = 1
            /\ forEachLength' = Len(microtaskQueue)
            /\ UNCHANGED microtaskQueue
    /\ UNCHANGED <<variant, mutationCounter, handedOver, schedulerVars,
                   deadlineVars>>

\* the callback being called returns: to the host, or to the observer's
\* forEach, which calls the next element below the length it read, and
\* after the last one the observer's callback does microtaskQueue = []
CallbackReturns ==
    /\ calling # NoCallback
    /\ IF forEachIndex = 0
       THEN /\ calling' = NoCallback
            /\ UNCHANGED <<invocations, microtaskQueue, forEachIndex,
                           forEachLength>>
       ELSE IF forEachIndex < forEachLength
       THEN /\ Invoke(microtaskQueue[forEachIndex + 1])
            /\ forEachIndex' = forEachIndex + 1
            /\ UNCHANGED <<microtaskQueue, forEachLength>>
       ELSE /\ calling' = NoCallback
            /\ microtaskQueue' = <<>>
            /\ forEachIndex' = 0
            /\ forEachLength' = 0
            /\ UNCHANGED invocations
    /\ UNCHANGED <<variant, hostMicrotasks, mutationCounter, handedOver,
                   schedulerVars, deadlineVars>>

MicrotaskNext ==
    \/ \E c \in 1..MaxCallbacks : QueueMicrotask(c)
    \/ HostRunsMicrotask
    \/ CallbackReturns

MicrotaskSpec == MicrotaskInit /\ [][MicrotaskNext]_vars

\* ------------------------------------------- idleCbWithPolyfill.ts alone
\* The shim's IdleDeadline under a clock that advances; the scheduler
\* stands by.
\* the last time an idle callback is requested, early enough for more
\* than IdlePeriod to pass afterwards
LastRequest == MaxNow - IdlePeriod - 2

DeadlineInit ==
    /\ SchedulerAtRest
    /\ variant = "queueMicrotask" /\ NoMicrotasks
    /\ now = 0 /\ NoIdleCallback

\* variant: without Math.max
TimeRemainingUnclamped(init, t) == IdlePeriod - (t - init)
\* IdleDeadline.timeRemaining() at time t, of a deadline with initTime init
TimeRemaining(init, t) == Max(0, IdlePeriod - (t - init))
\* IdleDeadline.didTimeout
DidTimeout == FALSE

\* requestIdleCallbackShim(callback): new IdleDeadline(now())
RequestIdleCallbackShim ==
    /\ now <= LastRequest
    /\ initTime' = now
    /\ readAt' = NoDeadline
    /\ remaining' = NoReading
    /\ UNCHANGED <<now, didTimeoutReads, schedulerVars, microtaskVars>>

\* a millisecond passes
Tick ==
    /\ now < MaxNow
    /\ now' = now + 1
    /\ UNCHANGED <<initTime, readAt, remaining, didTimeoutReads,
                   schedulerVars, microtaskVars>>

\* deadline.timeRemaining() is called
CallTimeRemaining ==
    /\ initTime # NoDeadline
    /\ readAt' = now
    /\ remaining' = TimeRemaining(initTime, now)
    /\ UNCHANGED <<now, initTime, didTimeoutReads, schedulerVars,
                   microtaskVars>>

\* deadline.didTimeout is read
ReadDidTimeout ==
    /\ initTime # NoDeadline
    /\ didTimeoutReads' = didTimeoutReads \cup {DidTimeout}
    /\ UNCHANGED <<now, initTime, readAt, remaining, schedulerVars,
                   microtaskVars>>

DeadlineNext ==
    \/ RequestIdleCallbackShim
    \/ Tick
    \/ CallTimeRemaining
    \/ ReadDidTimeout

DeadlineSpec == DeadlineInit /\ [][DeadlineNext]_vars

\* ------------------------------------------------------- vocabulary
\* runTasks has just returned to the host or to user code, and nothing
\* was called since
Returned == pc = "idle" /\ caller # "none"
\* a drain is on the stack or has just returned, and none of its tasks
\* called pushTask, unshiftTask, clearPendingTasks or destroy
PlainDrain == caller # "none" /\ ~touched
\* the number of tasks a plain drain has started
Started == Len(entryQueue) - Len(taskQueue)
\* how often task id was started
Starts(id) == Cardinality({i \in 1..Len(executed) : executed[i] = id})
\* a plain drain has started the first k items of its entry queue, each
\* once and in queue order, as the last k starts, and left the rest queued
\* in their order
StartedFirst(k) ==
    /\ k \in 0..Len(entryQueue)
    /\ k <= Len(executed)
    /\ taskQueue = SubSeq(entryQueue, k + 1, Len(entryQueue))
    /\ \A i \in 1..k :
          /\ executed[Len(executed) - k + i] = entryQueue[i].task
          /\ Starts(entryQueue[i].task) = 1
Pushed(id) == id \notin unshifted

\* ------------------------------------------------------------ claims
\* C1 (FIFO): tasks added by pushTask start in the order they were pushed,
\* over any number of drains, deadlines and minTaskTime values: the pushed
\* tasks started so far are in increasing push order, every pushed task
\* still queued was pushed after all of them, and the pushed tasks in the
\* queue stand in push order (with no unshiftTask call these are all tasks).
TheoremC1 ==
    /\ \A i, j \in 1..Len(executed) :
          (i < j /\ Pushed(executed[i]) /\ Pushed(executed[j]))
              => executed[i] < executed[j]
    /\ \A i \in 1..Len(executed), k \in 1..Len(taskQueue) :
          (Pushed(executed[i]) /\ Pushed(taskQueue[k].task))
              => executed[i] < taskQueue[k].task
    /\ \A k, l \in 1..Len(taskQueue) :
          (k < l /\ Pushed(taskQueue[k].task) /\ Pushed(taskQueue[l].task))
              => taskQueue[k].task < taskQueue[l].task
\* two pushed tasks ran in push order, the second (with a minTaskTime) as
\* the first task of a later drain that was given a deadline
WitnessC1 ==
    /\ pc = "task" /\ deadline /\ tasksProcessed = 0
    /\ unshifted = {} /\ executed = <<1, 2>>
    /\ running.minTaskTime > 0

\* C2 (priority), as claimed: the unshifted tasks in the queue stand in the
\* order they were unshifted, ahead of every pushed task.
ClaimC2 ==
    \A k, l \in 1..Len(taskQueue) :
        k < l =>
            /\ ~(Pushed(taskQueue[k].task) /\ ~Pushed(taskQueue[l].task))
            /\ (~Pushed(taskQueue[k].task) /\ ~Pushed(taskQueue[l].task))
                   => taskQueue[k].task < taskQueue[l].task
\* C2 as amended: unshiftTask places its task ahead of every queued task,
\* pushed or unshifted, so the unshifted tasks in the queue stand in the
\* reverse of the order they were unshifted, ahead of every pushed task.
TheoremC2 ==
    \A k, l \in 1..Len(taskQueue) :
        k < l =>
            /\ ~(Pushed(taskQueue[k].task) /\ ~Pushed(taskQueue[l].task))
            /\ (~Pushed(taskQueue[k].task) /\ ~Pushed(taskQueue[l].task))
                   => taskQueue[k].task > taskQueue[l].task
\* two tasks unshifted before any drain wait in the queue
WitnessC2 ==
    /\ Len(taskQueue) = 2 /\ executed = <<>>
    /\ TaskIds(taskQueue) \subseteq unshifted

\* C3 (yield): a task started by a drain with a deadline was started on a
\* reading of timeRemaining() greater than its minTaskTime; a drain that
\* returns after a reading has the item it tested still at the front, with
\* a minTaskTime not below the reading, and was given a deadline; a plain
\* drain with no deadline stops only on an empty queue or on the cap.
TheoremC3 ==
    /\ (pc = "task" /\ reading # NoReading)
           => (deadline /\ reading > running.minTaskTime)
    /\ (pc = "idle" /\ reading # NoReading)
           => /\ caller = "idleCallback"
              /\ HasPendingTasks
              /\ reading <= Head(taskQueue).minTaskTime
              /\ ~touched => StartedFirst(Started)
    /\ (Returned /\ ~touched /\ caller # "idleCallback")
           => (taskQueue = <<>> \/ Started = maxTasksPerIteration)
\* a drain returned on timeRemaining() == minTaskTime of the front task
WitnessC3 ==
    /\ pc = "idle" /\ reading = 10
    /\ HasPendingTasks /\ Head(taskQueue).minTaskTime = 10

TheoremC5 ==
    (Returned /\ ~touched /\ caller = "runTasksImmediately"
         /\ Len(entryQueue) <= maxTasksPerIteration)
        => /\ ~HasPendingTasks
           /\ StartedFirst(Len(entryQueue))
\* runTasksImmediately returned from two tasks, one with a minTaskTime
WitnessC5 ==
    /\ Returned /\ ~touched /\ caller = "runTasksImmediately"
    /\ Len(entryQueue) = 2 /\ taskQueue = <<>>
    /\ \E i \in 1..2 : entryQueue[i].minTaskTime > 0

\* C6 (a drain with no deadline runs all pending tasks), as claimed: when
\* runTasksImmediately() returns from a plain drain, every task that was
\* pending at the call was started and the queue is empty.
ClaimC6 ==
    (Returned /\ ~touched /\ caller = "runTasksImmediately")
        => /\ ~HasPendingTasks
           /\ \A i \in 1..Len(entryQueue) : Starts(entryQueue[i].task) = 1

\* C7 (isolation): right after a task threw, the drain went on as after a
\* return: either the next task of the queue is running in the same
\* invocation, or runTasks returned with the flag cleared and no state,
\* and a plain drain returned only on an empty queue, a reading that
\* yields, or the cap; whenever no drain is on the stack isProcessing is
\* false and getState() is null; and a plain drain has started the first
\* tasks of its entry queue once each, in order.
TheoremC7 ==
    /\ threw =>
          /\ pc = "task" =>
                (isProcessing /\ tasksProcessed >= 1 /\ state = running.state)
          /\ (pc = "idle" /\ ~touched) =>
                \/ taskQueue = <<>>
                \/ reading # NoReading
                \/ Started = maxTasksPerIteration
    /\ pc = "idle" => (~isProcessing /\ state = NullState)
    /\ PlainDrain => StartedFirst(Started)
\* a task threw and the next task of the queue was started
WitnessC7 == threw /\ pc = "task" /\ tasksProcessed = 1 /\ ~touched

\* C8 (destroy): no task that destroy() (or clearPendingTasks()) removed is
\* pending or was started, whatever callbacks fire afterwards and whoever
\* called it; so after destroy() only tasks enqueued later are pending.
TheoremC8 ==
    /\ dropped \cap TaskIds(taskQueue) = {}
    /\ dropped \cap Range(executed) = {}
    /\ (destroyed /\ nextTask - 1 \in dropped) => ~HasPendingTasks
\* a microtask requested before destroy() has fired after it
WitnessC8 ==
    /\ destroyed /\ nextTask - 1 \in dropped
    /\ Returned /\ caller = "microtask"

\* C9 (clearPendingTasks), as claimed: a clearPendingTasks() step empties
\* the queue, starts no task and leaves no scheduling request outstanding,
\* idle or microtask.
ClaimC9 ==
    [][ClearPendingTasks =>
          /\ taskQueue' = <<>>
          /\ executed' = executed
          /\ idleRequests' = {}
          /\ microtasks' = 0]_vars
\* C9 as amended: a clearPendingTasks() step empties the queue, starts no
\* task and leaves no idle request outstanding; the microtask requests
\* made before it stay outstanding.
TheoremC9 ==
    [][ClearPendingTasks =>
          /\ taskQueue' = <<>>
          /\ executed' = executed
          /\ idleCallbackHandle' = NoHandle
          /\ idleRequests' = {}
          /\ microtasks' = microtasks]_vars
\* clearPendingTasks() removed a task whose microtask request is still
\* outstanding
WitnessC9 ==
    /\ pc = "idle" /\ caller = "none" /\ ~destroyed
    /\ nextTask - 1 \in dropped /\ taskQueue = <<>>
    /\ idleRequests = {} /\ microtasks > 0

\* C10 (lifecycle listeners), as claimed: after destroy() the listeners
\* the constructor installed are gone, so a change of the document's
\* visibility starts no task of this scheduler, also when tasks were
\* enqueued after destroy().
ClaimC10 ==
    [][(destroyed /\ visibilityState' # visibilityState)
          => (pc' = "idle" /\ executed' = executed)]_vars

\* C11 (getState): in every step, afterwards getState() is null unless a
\* task is mid-execution, and then it is the state stored on the item of
\* that task; the task mid-execution and its state change only where a
\* task ends (not by an enqueue, a reentrant runTasksImmediately or any
\* other call the task makes); and every item in the queue was there
\* before with the same state, or is the item enqueued in this step, whose
\* state is the time and the document's visibility of this step.
TheoremC11 ==
    [][/\ pc' # "task" => state' = NullState
       /\ pc' = "task" =>
             /\ state' = running'.state
             /\ \/ running' = running
                \/ HasPendingTasks /\ running' = Head(taskQueue)
             /\ (pc = "task" /\ executed' = executed) =>
                    (running' = running /\ state' = state)
       /\ \A i \in 1..Len(taskQueue') :
             \/ taskQueue'[i] \in Range(taskQueue)
             \/ /\ taskQueue'[i].task = nextTask
                /\ taskQueue'[i].state = CurrentState]_vars
\* a task runs with the state of its enqueue after the document's
\* visibility changed and another task was enqueued
WitnessC11 ==
    /\ pc = "task" /\ state = running.state
    /\ state.visibilityState # visibilityState
    /\ state.time < nextTask - 1

\* C12 (teardown safety), as claimed: with ensureTasksRun in a browser,
\* a task that is pending while the document is hidden is eventually
\* started, unless clearPendingTasks() removes it or destroy() is called,
\* whether or not user code or the document does anything more.
ClaimC12 ==
    \A k \in 1..MaxTasks :
        (isBrowser /\ ensureTasksRun /\ visibilityState = "hidden"
             /\ k \in TaskIds(taskQueue))
            ~> (k \in Range(executed) \/ k \in dropped \/ destroyed)

\* C13 (per-task minTaskTime), as claimed: the item a pushTask or
\* unshiftTask step enqueues stores the minTaskTime option it was given
\* (a negative one raised to 0), also when that option is 0, and stores
\* defaultMinTaskTime only when the option is omitted.
ClaimC13 ==
    [][\A options \in TaskOptions :
          (PushTask(options) \/ UnshiftTask(options)) =>
              \E i \in 1..Len(taskQueue') :
                  /\ taskQueue'[i].task = nextTask
                  /\ taskQueue'[i].minTaskTime =
                         IF options = NoOptions
                         THEN defaultMinTaskTime
                         ELSE Max(0, options.minTaskTime)]_vars

\* C14 (one outstanding request), as claimed: at most one scheduling
\* request, idle or microtask, is outstanding at any time.
ClaimC14 == Cardinality(idleRequests) + microtasks <= 1
\* C14 as amended: at most one idle request is outstanding at any time,
\* and it is the one whose handle the scheduler holds; microtask requests
\* are made only in a browser with ensureTasksRun and are not limited to
\* one.
TheoremC14 ==
    /\ Cardinality(idleRequests) <= 1
    /\ idleRequests =
           IF idleCallbackHandle = NoHandle THEN {} ELSE {idleCallbackHandle}
    /\ microtasks > 0 => (isBrowser /\ ensureTasksRun)
\* two enqueues in a hidden document left two microtask requests
WitnessC14 ==
    /\ pc = "idle" /\ microtasks = 2 /\ Len(taskQueue) = 2
    /\ executed = <<>> /\ visibilityState = "hidden"

HiddenAndEnsured ==
    isBrowser /\ ensureTasksRun /\ visibilityState = "hidden"

ClaimC17 ==
    (pc = "idle" /\ HasPendingTasks) =>
        \/ idleCallbackHandle # NoHandle /\ idleCallbackHandle \in idleRequests
        \/ microtasks > 0

\* C18 (progress under idle scheduling), as claimed: where the scheduling
\* step requests idle callbacks only, and the host calls every requested
\* idle callback, a queued task is eventually started unless
\* clearPendingTasks() removes it or destroy() is called.
ClaimC18 ==
    \A k \in 1..MaxTasks :
        (~(isBrowser /\ ensureTasksRun) /\ k \in TaskIds(taskQueue))
            ~> (k \in Range(executed) \/ k \in dropped \/ destroyed)

\* C19 (microtask primitive), as claimed: no callback handed to the
\* function is called twice, and once the host has no microtask left and
\* no callback is running, every callback handed over was called once.
ClaimC19 ==
    /\ \A c \in 1..MaxCallbacks : invocations[c] <= 1
    /\ (hostMicrotasks = <<>> /\ calling = NoCallback) =>
           \A c \in 1..handedOver : invocations[c] = 1

\* C20 (deadline estimator): a value timeRemaining() returned, at a time
\* at or after the deadline's initTime, is within 0..50, is 50 minus the
\* time passed while less than 50 ms have passed, and 0 from then on;
\* on one deadline a later call never returns more than an earlier one;
\* and didTimeout is never read as true.
TheoremC20 ==
    /\ [](/\ remaining # NoReading =>
                /\ remaining \in 0..50
                /\ readAt - initTime < 50 =>
                       remaining = 50 - (readAt - initTime)
                /\ readAt - initTime >= 50 => remaining = 0
          /\ TRUE \notin didTimeoutReads)
    /\ [][(initTime' = initTime /\ remaining # NoReading
               /\ remaining' # NoReading) => remaining' <= remaining]_vars
\* timeRemaining() returned 0 more than 50 ms after a request that was
\* not made at time 0, and didTimeout was read
WitnessC20 ==
    /\ initTime > 0 /\ readAt - initTime > 50 /\ remaining = 0
    /\ didTimeoutReads = {FALSE}

====
